---- MODULE Spec2Model ----
(***************************************************************************)
(* State-machine model of snapcraft's build environment provider           *)
(* (snapcraft/providers/_provider.py, class Provider).                     *)
(*                                                                         *)
(* Python str values that the code builds, joins or formats are modelled   *)
(* as sequences of one-character strings, so that "-".join, str(int) and   *)
(* repr(str) are computed character by character.  Values the code only    *)
(* copies or uses as keys (environment variable names and values, path     *)
(* strings) are plain strings.                                             *)
(***************************************************************************)
EXTENDS Integers, Sequences, FiniteSets, TLC

VARIABLES
    fs,            \* host filesystem: project_path -> st_ino (0: no such file)
    name_calls,    \* the last two get_instance_name calls, oldest first
    base_call,     \* the last is_base_available call: None or Some([base, result])
    environ,       \* os.environ of the host process: a mapping name -> value
    env_call,      \* the last get_command_environment call: None or Some(record)
    available,     \* what is_provider_available() returns
    instances,     \* backend: instance name -> absent, created, launched, stopped
    mounts,        \* backend: instance name -> set of mounted targets
    scope,         \* the open launched_environment block: None or Some(instance name)
    last_op,       \* record of the most recent operation and the calls it made
    prev_op        \* record of the operation before the most recent one

pureVars == <<name_calls, base_call, environ, env_call>>
lifeVars == <<available, instances, mounts, scope, last_op, prev_op>>
vars == <<fs, name_calls, base_call, environ, env_call,
          available, instances, mounts, scope, last_op, prev_op>>

\* Optional values: Python's None, and a present value.
None == <<>>
Some(v) == <<v>>

\* Python dicts with str keys: functions on a finite set of names.
EmptyDict == [k \in {} |-> ""]
SetItem(d, key, value) ==
    [k \in DOMAIN d \cup {key} |-> IF k = key THEN value ELSE d[k]]

(***************************************************************************)
(* Bounds and input sets                                                   *)
(***************************************************************************)
\* Number of distinct inode numbers a project directory may have.
MaxInodes == 2

\* Inode numbers straddle the one/two digit boundary (9, 10, ...), so that
\* str() produces strings of different lengths.
Inodes == { 8 + k : k \in 1..MaxInodes }

Paths == { "/proj", "/other" }

ProjectNames ==
    { <<"a">>,
      <<"a", "-", "o", "n", "-", "b">> }

Archs ==
    { <<"c">>,
      <<"b", "-", "o", "n", "-", "c">> }

(***************************************************************************)
(* Python primitives                                                       *)
(***************************************************************************)
Digits == <<"0", "1", "2", "3", "4", "5", "6", "7", "8", "9">>

\* str(n) for an int n >= 0: its decimal digits.
RECURSIVE Str(_)
Str(n) ==
    IF n < 10 THEN <<Digits[n + 1]>>
    ELSE Str(n \div 10) \o <<Digits[(n % 10) + 1]>>

\* sep.join(parts)
RECURSIVE Join(_, _)
Join(sep, parts) ==
    IF Len(parts) = 0 THEN <<>>
    ELSE IF Len(parts) = 1 THEN parts[1]
    ELSE parts[1] \o sep \o Join(sep, Tail(parts))

\* project_path.stat(): raises (FileNotFoundError) when the path is missing.
Stat(project_path) ==
    IF fs[project_path] = 0
    THEN [raised |-> TRUE, st_ino |-> 0]
    ELSE [raised |-> FALSE, st_ino |-> fs[project_path]]

(***************************************************************************)
(* Provider.get_instance_name                                              *)
(***************************************************************************)
\* The name for a directory whose inode lookup succeeded with st_ino.
InstanceNameOf(project_name, build_on, build_for, st_ino) ==
    Join(<<"-">>,
         << <<"s", "n", "a", "p", "c", "r", "a", "f", "t">>,
            project_name,
            <<"o", "n">>,
            build_on,
            <<"f", "o", "r">>,
            build_for,
            Str(st_ino) >>)

get_instance_name_no_inode(project_name, project_path, build_on, build_for) ==
    LET st == Stat(project_path) IN
    IF st.raised
    THEN [raised |-> TRUE, name |-> <<>>]
    ELSE [raised |-> FALSE,
          name |-> Join(<<"-">>,
                        << <<"s", "n", "a", "p", "c", "r", "a", "f", "t">>,
                           project_name, <<"o", "n">>, build_on,
                           <<"f", "o", "r">>, build_for >>)]

get_instance_name(project_name, project_path, build_on, build_for) ==
    LET st == Stat(project_path) IN
    IF st.raised
    THEN [raised |-> TRUE, name |-> <<>>]
    ELSE [raised |-> FALSE,
          name |-> InstanceNameOf(project_name, build_on, build_for, st.st_ino)]

(***************************************************************************)
(* The backend and the record of operations                                *)
(***************************************************************************)
\* The project whose environments are launched and cleaned.
LifeProjectName == <<"a">>
LifeArch == <<"c">>
LifePath == "/proj"

\* The instance names the project can have: one per inode of its directory.
InstanceNames ==
    { InstanceNameOf(LifeProjectName, LifeArch, LifeArch, i) : i \in Inodes }

MountTargets == { "ssh", "project" }

\* The record of one operation: its arguments, the instance name it
\* resolved, the calls it made in order, what exists() answered, whether it
\* raised; for the exit of launched_environment, how the body ended and the
\* mounts that were unmounted.
OpRecord(op, project_path, instance_name, calls, existed, raised) ==
    [op |-> op, project_path |-> project_path, instance_name |-> instance_name,
     calls |-> calls, existed |-> existed, raised |-> raised,
     outcome |-> "", unmounted |-> {}]

NoOp == OpRecord("none", "", None, <<>>, None, FALSE)

\* No provider operation has run: the state of the specifications of the
\* pure functions.
LifeIdle ==
    /\ available = FALSE
    /\ instances = [n \in InstanceNames |-> "absent"]
    /\ mounts = [n \in InstanceNames |-> {}]
    /\ scope = None
    /\ last_op = NoOp
    /\ prev_op = NoOp

(***************************************************************************)
(* The host changes the project directory between calls.                   *)
(***************************************************************************)
\* The directory at project_path is removed (st_ino = 0) or replaced by one
\* with another inode.
ReplaceProjectDir(project_path, st_ino) ==
    /\ fs[project_path] # st_ino
    /\ fs' = [fs EXCEPT ![project_path] = st_ino]

(***************************************************************************)
(* Specification of get_instance_name calls                                *)
(***************************************************************************)
NameCall(project_name, project_path, build_on, build_for) ==
    LET r == get_instance_name(project_name, project_path, build_on, build_for) IN
    [project_name |-> project_name,
     project_path |-> project_path,
     build_on     |-> build_on,
     build_for    |-> build_for,
     st_ino       |-> Stat(project_path).st_ino,
     raised       |-> r.raised,
     name         |-> r.name]

CallGetInstanceName(project_name, project_path, build_on, build_for) ==
    /\ name_calls' =
         (IF Len(name_calls) = 2 THEN Tail(name_calls) ELSE name_calls)
            \o <<NameCall(project_name, project_path, build_on, build_for)>>
    /\ UNCHANGED <<fs, base_call, environ, env_call, lifeVars>>

NameReplaceProjectDir ==
    /\ \E p \in Paths, i \in Inodes \cup {0} : ReplaceProjectDir(p, i)
    /\ UNCHANGED <<name_calls, base_call, environ, env_call, lifeVars>>

NameInit ==
    /\ fs \in [Paths -> Inodes \cup {0}]
    /\ name_calls = <<>>
    /\ base_call = None
    /\ environ = EmptyDict
    /\ env_call = None
    /\ LifeIdle

NameNext ==
    \/ \E pn \in ProjectNames, p \in Paths, bo \in Archs, bf \in Archs :
          CallGetInstanceName(pn, p, bo, bf)
    \/ NameReplaceProjectDir

NameSpec == NameInit /\ [][NameNext]_vars

\* The two recorded calls both returned a name.
TwoNames ==
    /\ Len(name_calls) = 2
    /\ ~name_calls[1].raised
    /\ ~name_calls[2].raised

SameTriple ==
    /\ name_calls[1].project_name = name_calls[2].project_name
    /\ name_calls[1].build_on = name_calls[2].build_on
    /\ name_calls[1].build_for = name_calls[2].build_for

\* C9: for fixed project_name, build_on and build_for, two calls of
\* get_instance_name return the same string if and only if project_path
\* resolved to the same inode number in both calls.
C9_SameNameIffSameInode ==
    (TwoNames /\ SameTriple) =>
        ((name_calls[1].name = name_calls[2].name)
            <=> (name_calls[1].st_ino = name_calls[2].st_ino))

\* Two calls with the same arguments (the path string reused) after the
\* directory was replaced: another inode, another name.
C9_Witness ==
    /\ TwoNames /\ SameTriple
    /\ name_calls[1].project_path = name_calls[2].project_path
    /\ name_calls[1].st_ino # name_calls[2].st_ino
    /\ name_calls[1].name # name_calls[2].name

\* C10: for a fixed inode, get_instance_name is injective in
\* (project_name, build_on, build_for): two calls that return the same name
\* for the same inode were given the same triple.
C10_InjectiveInTriple ==
    (/\ TwoNames
     /\ name_calls[1].st_ino = name_calls[2].st_ino
     /\ name_calls[1].name = name_calls[2].name)
        => SameTriple

(***************************************************************************)
(* Provider.is_base_available                                              *)
(***************************************************************************)
\* Longest base identifier drawn from BaseChars.
MaxBaseLen == 3

\* Characters that repr() treats differently: a plain character, the two
\* quotes, the backslash and a newline.
BaseChars == { "u", "'", "\"", "\\", "\n" }

Ubuntu1604 == <<"u", "b", "u", "n", "t", "u", ":", "1", "6", ".", "0", "4">>
Ubuntu1804 == <<"u", "b", "u", "n", "t", "u", ":", "1", "8", ".", "0", "4">>
Ubuntu2004 == <<"u", "b", "u", "n", "t", "u", ":", "2", "0", ".", "0", "4">>

RECURSIVE StringsUpTo(_)
StringsUpTo(n) ==
    IF n = 0 THEN { <<>> }
    ELSE LET shorter == StringsUpTo(n - 1) IN
         shorter \cup { Append(s, c) : s \in shorter, c \in BaseChars }

Bases == { Ubuntu1604, Ubuntu1804, Ubuntu2004 } \cup StringsUpTo(MaxBaseLen)

Contains(s, c) == \E i \in 1..Len(s) : s[i] = c

\* repr() of one character inside a literal quoted with quote.
ReprChar(c, quote) ==
    IF c = "\\" THEN <<"\\", "\\">>
    ELSE IF c = "\n" THEN <<"\\", "n">>
    ELSE IF c = quote THEN <<"\\", c>>
    ELSE <<c>>

RECURSIVE ReprBody(_, _)
ReprBody(s, quote) ==
    IF Len(s) = 0 THEN <<>>
    ELSE ReprChar(Head(s), quote) \o ReprBody(Tail(s), quote)

\* repr(s) of a str (CPython unicode_repr): single quotes, unless s has a
\* single quote and no double quote; backslash, newline and the chosen
\* quote are escaped.
Repr(s) ==
    LET quote == IF Contains(s, "'") /\ ~Contains(s, "\"") THEN "\"" ELSE "'" IN
    <<quote>> \o ReprBody(s, quote) \o <<quote>>

ReasonPrefix == <<"B", "a", "s", "e", " ">>

ReasonSuffix ==
    <<" ", "i", "s", " ", "n", "o", "t", " ", "s", "u", "p", "p", "o", "r", "t", "e", "d", " ",
      "(", "m", "u", "s", "t", " ", "b", "e", " ",
      "'", "u", "b", "u", "n", "t", "u", ":", "1", "8", ".", "0", "4", "'",
      " ", "o", "r", " ",
      "'", "u", "b", "u", "n", "t", "u", ":", "2", "0", ".", "0", "4", "'", ")">>

is_base_available_plain(base) ==
    IF base \notin { Ubuntu1804, Ubuntu2004 }
    THEN [ok |-> FALSE, reason |-> Some(ReasonPrefix \o base \o ReasonSuffix)]
    ELSE [ok |-> TRUE, reason |-> None]

is_base_available(base) ==
    IF base \notin { Ubuntu1804, Ubuntu2004 }
    THEN [ok |-> FALSE, reason |-> Some(ReasonPrefix \o Repr(base) \o ReasonSuffix)]
    ELSE [ok |-> TRUE, reason |-> None]

CallIsBaseAvailable(base) ==
    /\ base_call' = Some([base |-> base, result |-> is_base_available(base)])
    /\ UNCHANGED <<fs, name_calls, environ, env_call, lifeVars>>

BaseInit ==
    /\ fs = [p \in Paths |-> 0]
    /\ name_calls = <<>>
    /\ base_call = None
    /\ environ = EmptyDict
    /\ env_call = None
    /\ LifeIdle

BaseNext == \E base \in Bases : CallIsBaseAvailable(base)

BaseSpec == BaseInit /\ [][BaseNext]_vars

\* The value of a Python string literal: the text between its quotes with
\* the escapes \\, \n, \' and \" undone.
RECURSIVE Unescape(_)
Unescape(s) ==
    IF Len(s) = 0 THEN <<>>
    ELSE IF s[1] = "\\" /\ Len(s) >= 2
         THEN <<IF s[2] = "n" THEN "\n" ELSE s[2]>> \o Unescape(SubSeq(s, 3, Len(s)))
         ELSE <<s[1]>> \o Unescape(Tail(s))

IsLiteralOf(lit, s) ==
    /\ Len(lit) >= 2
    /\ lit[1] \in { "'", "\"" }
    /\ lit[Len(lit)] = lit[1]
    /\ Unescape(SubSeq(lit, 2, Len(lit) - 1)) = s
    \* no unescaped closing quote inside the literal
    /\ \A i \in 2..(Len(lit) - 1) :
          lit[i] = lit[1] => lit[i - 1] = "\\"

PlainBase(s) == \A i \in 1..Len(s) : s[i] \notin { "'", "\"", "\\", "\n" }

\* The part of a reason between "Base " and " is not supported (...)".
ReasonSubject(reason) ==
    SubSeq(reason, Len(ReasonPrefix) + 1, Len(reason) - Len(ReasonSuffix))

BaseCalled == base_call # None
TheBase == base_call[1].base
TheResult == base_call[1].result

\* C8 (as amended): is_base_available(base) returns (true, None) if and only
\* if base is exactly "ubuntu:18.04" or "ubuntu:20.04"; for every other
\* string it returns false with the reason
\* "Base <r> is not supported (must be 'ubuntu:18.04' or 'ubuntu:20.04')"
\* where <r> is repr(base): a quoted Python literal whose value is base,
\* which for a base without quotes, backslashes or control characters is
\* base between single quotes.
C8_ReasonQuotesBase ==
    BaseCalled =>
        /\ TheResult.ok <=> TheBase \in { Ubuntu1804, Ubuntu2004 }
        /\ TheResult.ok => TheResult.reason = None
        /\ ~TheResult.ok =>
              /\ TheResult.reason # None
              /\ LET reason == TheResult.reason[1]
                     subject == ReasonSubject(reason) IN
                 /\ Len(reason) >= Len(ReasonPrefix) + Len(ReasonSuffix) + 2
                 /\ reason = ReasonPrefix \o subject \o ReasonSuffix
                 /\ IsLiteralOf(subject, TheBase)
                 /\ PlainBase(TheBase) => subject = <<"'">> \o TheBase \o <<"'">>

\* An unsupported base was rejected with a reason that quotes it.
C8_Witness ==
    /\ BaseCalled
    /\ TheBase = Ubuntu1604
    /\ ~TheResult.ok
    /\ TheResult.reason = Some(ReasonPrefix \o <<"'">> \o Ubuntu1604 \o <<"'">> \o ReasonSuffix)

\* C8 (as claimed): the reason of an unsupported base is
\* "Base <base> is not supported (...)" with the base identifier itself.
C8_ReasonNamesBareBase ==
    BaseCalled =>
        IF TheBase \in { Ubuntu1804, Ubuntu2004 }
        THEN TheResult = [ok |-> TRUE, reason |-> None]
        ELSE TheResult =
               [ok |-> FALSE, reason |-> Some(ReasonPrefix \o TheBase \o ReasonSuffix)]

(***************************************************************************)
(* Provider.get_command_environment                                        *)
(***************************************************************************)
\* Largest number of variables the host environment defines.
MaxHostVars == 3

\* The names the code passes through, in the order of its list.
PassThroughWithManagedMode ==
    <<"http_proxy", "https_proxy", "no_proxy",
      "SNAPCRAFT_ENABLE_EXPERIMENTAL_EXTENSIONS", "SNAPCRAFT_BUILD_FOR",
      "SNAPCRAFT_BUILD_INFO", "SNAPCRAFT_IMAGE_INFO", "SNAPCRAFT_MANAGED_MODE">>

PassThroughWithoutNoProxy ==
    <<"http_proxy", "https_proxy",
      "SNAPCRAFT_ENABLE_EXPERIMENTAL_EXTENSIONS", "SNAPCRAFT_BUILD_FOR",
      "SNAPCRAFT_BUILD_INFO", "SNAPCRAFT_IMAGE_INFO">>

PassThrough ==
    <<"http_proxy", "https_proxy", "no_proxy",
      "SNAPCRAFT_ENABLE_EXPERIMENTAL_EXTENSIONS", "SNAPCRAFT_BUILD_FOR",
      "SNAPCRAFT_BUILD_INFO", "SNAPCRAFT_IMAGE_INFO">>

\* Names a host environment may define: the pass-through names and three
\* the code does not pass through.
HostNames ==
    { "http_proxy", "https_proxy", "no_proxy",
      "SNAPCRAFT_ENABLE_EXPERIMENTAL_EXTENSIONS", "SNAPCRAFT_BUILD_FOR",
      "SNAPCRAFT_BUILD_INFO", "SNAPCRAFT_IMAGE_INFO",
      "SNAPCRAFT_MANAGED_MODE", "PATH", "HOME" }

HostValues == { "http://host", "0" }

HostEnvirons ==
    UNION { [D -> HostValues] :
              D \in { S \in SUBSET HostNames : Cardinality(S) <= MaxHostVars } }

\* Values of an Optional[str] proxy argument: not given, the empty string,
\* and two proxies (one equal to a host value).
ProxyArgs == { None, Some(""), Some("http://a"), Some("http://host") }

\* craft_providers' bases.buildd.default_command_environment(): PATH only.
default_command_environment ==
    SetItem(EmptyDict, "PATH",
            "/usr/local/sbin:/usr/local/bin:/usr/sbin:/usr/bin:/sbin:/bin:/snap/bin")

\* Truth value of an Optional[str] in `if x:`.
Truthy(x) == x # None /\ x[1] # ""

\* for env_key in keys: if env_key in os.environ: env[env_key] = os.environ[env_key]
RECURSIVE PassHostEnvironment(_, _)
PassHostEnvironment(env, keys) ==
    IF Len(keys) = 0 THEN env
    ELSE PassHostEnvironment(
             IF Head(keys) \in DOMAIN environ
             THEN SetItem(env, Head(keys), environ[Head(keys)])
             ELSE env,
             Tail(keys))

get_command_environment(http_proxy, https_proxy) ==
    LET env0 == default_command_environment
        env1 == SetItem(env0, "SNAPCRAFT_MANAGED_MODE", "1")
        env2 == PassHostEnvironment(env1, PassThrough)
        env3 == IF Truthy(http_proxy)
                THEN SetItem(env2, "http_proxy", http_proxy[1]) ELSE env2
        env4 == IF Truthy(https_proxy)
                THEN SetItem(env3, "https_proxy", https_proxy[1]) ELSE env3
    IN  env4

CallGetCommandEnvironment(http_proxy, https_proxy) ==
    /\ env_call' = Some([http_proxy  |-> http_proxy,
                         https_proxy |-> https_proxy,
                         env |-> get_command_environment(http_proxy, https_proxy)])
    /\ UNCHANGED <<fs, name_calls, base_call, environ, lifeVars>>

EnvInit ==
    /\ fs = [p \in Paths |-> 0]
    /\ name_calls = <<>>
    /\ base_call = None
    /\ environ \in HostEnvirons
    /\ env_call = None
    /\ LifeIdle

EnvNext ==
    \E http_proxy \in ProxyArgs, https_proxy \in ProxyArgs :
        CallGetCommandEnvironment(http_proxy, https_proxy)

EnvSpec == EnvInit /\ [][EnvNext]_vars

EnvCalled == env_call # None
TheEnv == env_call[1].env
HttpProxyArg == env_call[1].http_proxy
HttpsProxyArg == env_call[1].https_proxy

\* The explicit argument given for a name, None when the name has none.
ExplicitArg(key) ==
    IF key = "http_proxy" THEN HttpProxyArg
    ELSE IF key = "https_proxy" THEN HttpsProxyArg
    ELSE None

\* C5: every http_proxy (https_proxy) argument that is given, i.e. is not
\* None, is the value of http_proxy (https_proxy) in the returned mapping,
\* whatever the host environment defines.
C5_ExplicitProxyWins ==
    EnvCalled =>
        \A key \in { "http_proxy", "https_proxy" } :
            ExplicitArg(key) # None =>
                /\ key \in DOMAIN TheEnv
                /\ TheEnv[key] = ExplicitArg(key)[1]

\* The seven pass-through names.
SevenNames ==
    { "http_proxy", "https_proxy", "no_proxy",
      "SNAPCRAFT_ENABLE_EXPERIMENTAL_EXTENSIONS", "SNAPCRAFT_BUILD_FOR",
      "SNAPCRAFT_BUILD_INFO", "SNAPCRAFT_IMAGE_INFO" }

\* C6: each of the seven pass-through names without an explicit override
\* is in the result with the host's value if the host defines it, and is
\* absent from the result if the host does not; a name outside the list is
\* never taken from the host: if present it is the managed-mode marker or a
\* default of the base, with that value.
C6_PassThroughExact ==
    EnvCalled =>
        /\ \A key \in SevenNames :
              ExplicitArg(key) = None =>
                  IF key \in DOMAIN environ
                  THEN key \in DOMAIN TheEnv /\ TheEnv[key] = environ[key]
                  ELSE key \notin DOMAIN TheEnv
        /\ \A key \in DOMAIN TheEnv :
              key \notin SevenNames =>
                  \/ key = "SNAPCRAFT_MANAGED_MODE" /\ TheEnv[key] = "1"
                  \/ /\ key \in DOMAIN default_command_environment
                     /\ TheEnv[key] = default_command_environment[key]

\* A call without overrides on a host that defines no_proxy, PATH and HOME:
\* no_proxy is passed through, HOME is not, PATH is the default.
C6_Witness ==
    /\ EnvCalled
    /\ HttpProxyArg = None /\ HttpsProxyArg = None
    /\ DOMAIN environ = { "no_proxy", "HOME", "PATH" }
    /\ TheEnv["no_proxy"] = environ["no_proxy"]
    /\ "HOME" \notin DOMAIN TheEnv
    /\ "http_proxy" \notin DOMAIN TheEnv
    /\ TheEnv["PATH"] # environ["PATH"]

\* C7: every returned mapping has SNAPCRAFT_MANAGED_MODE equal to "1"; and
\* a call without arguments on a host that defines none of http_proxy,
\* https_proxy and no_proxy returns a mapping with none of the three.
C7_ManagedModeForced ==
    EnvCalled =>
        /\ "SNAPCRAFT_MANAGED_MODE" \in DOMAIN TheEnv
        /\ TheEnv["SNAPCRAFT_MANAGED_MODE"] = "1"
        /\ (/\ HttpProxyArg = None /\ HttpsProxyArg = None
            /\ DOMAIN environ \cap { "http_proxy", "https_proxy", "no_proxy" } = {})
              => DOMAIN TheEnv \cap { "http_proxy", "https_proxy", "no_proxy" } = {}

\* The host itself defines SNAPCRAFT_MANAGED_MODE as "0" and no proxy; the
\* call without arguments returns the marker "1" and no proxy key.
C7_Witness ==
    /\ EnvCalled
    /\ HttpProxyArg = None /\ HttpsProxyArg = None
    /\ "SNAPCRAFT_MANAGED_MODE" \in DOMAIN environ
    /\ environ["SNAPCRAFT_MANAGED_MODE"] = "0"
    /\ DOMAIN environ \cap { "http_proxy", "https_proxy", "no_proxy" } = {}
    /\ TheEnv["SNAPCRAFT_MANAGED_MODE"] = "1"
    /\ DOMAIN TheEnv = { "PATH", "SNAPCRAFT_MANAGED_MODE" }

(***************************************************************************)
(* The environment handle (craft_providers.Executor) of a backend that     *)
(* keeps one state per instance name.                                      *)
(***************************************************************************)
\* environment.exists()
Exists(instance_name) == instances[instance_name] # "absent"

\* environment.delete(): the instance and its mounts are gone.
Delete(instance_name) ==
    /\ instances' = [instances EXCEPT ![instance_name] = "absent"]
    /\ mounts' = [mounts EXCEPT ![instance_name] = {}]

(***************************************************************************)
(* Provider.clean_project_environments                                     *)
(***************************************************************************)
\* As clean_project_environments, with the instance name computed before
\* the provider is asked whether it is available.
clean_project_environments_name_first(project_name, project_path, build_on, build_for) ==
    LET r == get_instance_name(project_name, project_path, build_on, build_for) IN
    /\ prev_op' = last_op
    /\ UNCHANGED <<fs, pureVars, available, scope>>
    /\ IF r.raised
       THEN /\ last_op' = OpRecord("clean_project_environments", project_path, None,
                                   <<"get_instance_name">>, None, TRUE)
            /\ UNCHANGED <<instances, mounts>>
       ELSE IF ~available
       THEN /\ last_op' = OpRecord("clean_project_environments", project_path, None,
                                   <<"get_instance_name", "is_provider_available">>,
                                   None, FALSE)
            /\ UNCHANGED <<instances, mounts>>
       ELSE IF Exists(r.name)
       THEN /\ Delete(r.name)
            /\ last_op' = OpRecord("clean_project_environments", project_path, Some(r.name),
                                   <<"get_instance_name", "is_provider_available",
                                     "create_environment", "exists", "delete">>,
                                   Some(TRUE), FALSE)
       ELSE /\ last_op' = OpRecord("clean_project_environments", project_path, Some(r.name),
                                   <<"get_instance_name", "is_provider_available",
                                     "create_environment", "exists">>,
                                   Some(FALSE), FALSE)
            /\ UNCHANGED <<instances, mounts>>

\* As clean_project_environments, with delete() called without asking
\* exists().
clean_project_environments_always_delete(project_name, project_path, build_on, build_for) ==
    /\ prev_op' = last_op
    /\ UNCHANGED <<fs, pureVars, available, scope>>
    /\ IF ~available
       THEN /\ last_op' = OpRecord("clean_project_environments", project_path, None,
                                   <<"is_provider_available">>, None, FALSE)
            /\ UNCHANGED <<instances, mounts>>
       ELSE LET r == get_instance_name(project_name, project_path, build_on, build_for) IN
            IF r.raised
            THEN /\ last_op' = OpRecord("clean_project_environments", project_path, None,
                                        <<"is_provider_available", "get_instance_name">>,
                                        None, TRUE)
                 /\ UNCHANGED <<instances, mounts>>
            ELSE /\ Delete(r.name)
                 /\ last_op' = OpRecord("clean_project_environments", project_path,
                                        Some(r.name),
                                        <<"is_provider_available", "get_instance_name",
                                          "create_environment", "delete">>,
                                        Some(Exists(r.name)), FALSE)

\* As clean_project_environments, with a launched instance left alone.
clean_project_environments_unless_launched(project_name, project_path, build_on, build_for) ==
    /\ prev_op' = last_op
    /\ UNCHANGED <<fs, pureVars, available, scope>>
    /\ IF ~available
       THEN /\ last_op' = OpRecord("clean_project_environments", project_path, None,
                                   <<"is_provider_available">>, None, FALSE)
            /\ UNCHANGED <<instances, mounts>>
       ELSE LET r == get_instance_name(project_name, project_path, build_on, build_for) IN
            IF r.raised
            THEN /\ last_op' = OpRecord("clean_project_environments", project_path, None,
                                        <<"is_provider_available", "get_instance_name">>,
                                        None, TRUE)
                 /\ UNCHANGED <<instances, mounts>>
            ELSE IF Exists(r.name) /\ instances[r.name] # "launched"
            THEN /\ Delete(r.name)
                 /\ last_op' = OpRecord("clean_project_environments", project_path,
                                        Some(r.name),
                                        <<"is_provider_available", "get_instance_name",
                                          "create_environment", "exists", "delete">>,
                                        Some(TRUE), FALSE)
            ELSE /\ last_op' = OpRecord("clean_project_environments", project_path,
                                        Some(r.name),
                                        <<"is_provider_available", "get_instance_name",
                                          "create_environment", "exists">>,
                                        Some(Exists(r.name)), FALSE)
                 /\ UNCHANGED <<instances, mounts>>

clean_project_environments(project_name, project_path, build_on, build_for) ==
    /\ prev_op' = last_op
    /\ UNCHANGED <<fs, pureVars, available, scope>>
    /\ IF ~available
       THEN \* Nothing to do if provider is not installed.
            /\ last_op' = OpRecord("clean_project_environments", project_path, None,
                                   <<"is_provider_available">>, None, FALSE)
            /\ UNCHANGED <<instances, mounts>>
       ELSE LET r == get_instance_name(project_name, project_path, build_on, build_for) IN
            IF r.raised
            THEN \* the inode lookup failed: the error propagates
                 /\ last_op' = OpRecord("clean_project_environments", project_path, None,
                                        <<"is_provider_available", "get_instance_name">>,
                                        None, TRUE)
                 /\ UNCHANGED <<instances, mounts>>
            ELSE IF Exists(r.name)
            THEN /\ Delete(r.name)
                 /\ last_op' = OpRecord("clean_project_environments", project_path,
                                        Some(r.name),
                                        <<"is_provider_available", "get_instance_name",
                                          "create_environment", "exists", "delete">>,
                                        Some(TRUE), FALSE)
            ELSE /\ last_op' = OpRecord("clean_project_environments", project_path,
                                        Some(r.name),
                                        <<"is_provider_available", "get_instance_name",
                                          "create_environment", "exists">>,
                                        Some(FALSE), FALSE)
                 /\ UNCHANGED <<instances, mounts>>

(***************************************************************************)
(* Provider.launched_environment: a context manager.  Entering launches    *)
(* the instance and yields it; the body is the caller's; leaving the block *)
(* by any path runs the teardown.                                          *)
(***************************************************************************)
\* __enter__: up to the yield.
launched_environment_enter(project_name, project_path, bind_ssh, build_on, build_for) ==
    /\ available
    /\ scope = None
    /\ prev_op' = last_op
    /\ UNCHANGED <<fs, pureVars, available>>
    /\ LET r == get_instance_name(project_name, project_path, build_on, build_for) IN
       IF r.raised
       THEN /\ last_op' = OpRecord("launched_environment", project_path, None,
                                   <<"get_instance_name">>, None, TRUE)
            /\ UNCHANGED <<instances, mounts, scope>>
       ELSE /\ instances' = [instances EXCEPT ![r.name] = "launched"]
            /\ mounts' = [mounts EXCEPT ![r.name] = IF bind_ssh THEN {"ssh"} ELSE {}]
            /\ scope' = Some(r.name)
            /\ last_op' = OpRecord("launched_environment", project_path, Some(r.name),
                                   IF bind_ssh
                                   THEN <<"get_instance_name", "create_environment",
                                          "launch", "mount">>
                                   ELSE <<"get_instance_name", "create_environment",
                                          "launch">>,
                                   None, FALSE)

\* The caller's body mounts a directory into the yielded instance.
BodyMount(target) ==
    /\ scope # None
    /\ instances[scope[1]] = "launched"
    /\ target \notin mounts[scope[1]]
    /\ mounts' = [mounts EXCEPT ![scope[1]] = @ \cup {target}]
    /\ last_op' = OpRecord("mount", "", scope, <<"mount">>, None, FALSE)
    /\ prev_op' = last_op
    /\ UNCHANGED <<fs, pureVars, available, instances, scope>>

\* The effect of environment.unmount_all() and environment.stop() on the
\* backend: no mounts, and a launched instance is stopped (an instance that
\* is not running stays as it is).
Teardown(instance_name) ==
    /\ mounts' = [mounts EXCEPT ![instance_name] = {}]
    /\ instances' = [instances EXCEPT
                       ![instance_name] = IF @ = "launched" THEN "stopped" ELSE @]

\* As launched_environment_exit, with the teardown after the yield and not
\* in a finally clause: it runs only when the body returns.
launched_environment_exit_no_finally(outcome) ==
    /\ scope # None
    /\ scope' = None
    /\ prev_op' = last_op
    /\ UNCHANGED <<fs, pureVars, available>>
    /\ IF outcome = "return"
       THEN /\ Teardown(scope[1])
            /\ last_op' = [OpRecord("launched_environment_exit", "", scope,
                                    <<"unmount_all", "stop">>, None, FALSE)
                             EXCEPT !.outcome = outcome,
                                    !.unmounted = mounts[scope[1]]]
       ELSE /\ UNCHANGED <<instances, mounts>>
            /\ last_op' = [OpRecord("launched_environment_exit", "", scope,
                                    <<>>, None, TRUE)
                             EXCEPT !.outcome = outcome]

\* __exit__: the body returned, raised or was cancelled; the teardown runs
\* and then the exception, if any, goes on to the caller.
launched_environment_exit(outcome) ==
    /\ scope # None
    /\ scope' = None
    /\ prev_op' = last_op
    /\ UNCHANGED <<fs, pureVars, available>>
    /\ Teardown(scope[1])
    /\ last_op' = [OpRecord("launched_environment_exit", "", scope,
                            <<"unmount_all", "stop">>, None, outcome # "return")
                     EXCEPT !.outcome = outcome,
                            !.unmounted = mounts[scope[1]]]

(***************************************************************************)
(* Specification of the environment lifecycle                              *)
(***************************************************************************)
BodyOutcomes == { "return", "raise", "cancel" }

\* The provider gets installed on the host.
InstallProvider ==
    /\ ~available
    /\ available' = TRUE
    /\ last_op' = OpRecord("install", "", None, <<>>, None, FALSE)
    /\ prev_op' = last_op
    /\ UNCHANGED <<fs, pureVars, instances, mounts, scope>>

\* The project directory is removed or replaced.
LifeReplaceProjectDir ==
    /\ \E i \in Inodes \cup {0} : ReplaceProjectDir(LifePath, i)
    /\ last_op' = OpRecord("replace", LifePath, None, <<>>, None, FALSE)
    /\ prev_op' = last_op
    /\ UNCHANGED <<pureVars, available, instances, mounts, scope>>

Clean ==
    clean_project_environments(LifeProjectName, LifePath, LifeArch, LifeArch)

LaunchEnter ==
    \E bind_ssh \in BOOLEAN :
        launched_environment_enter(LifeProjectName, LifePath, bind_ssh, LifeArch, LifeArch)

LaunchBodyMount == \E target \in MountTargets : BodyMount(target)

LaunchExit == \E outcome \in BodyOutcomes : launched_environment_exit(outcome)

\* Without the provider no instance exists; with it, instances of earlier
\* runs may exist, created or stopped.
Init ==
    /\ fs \in [Paths -> Inodes \cup {0}]
    /\ fs["/other"] = 0
    /\ name_calls = <<>>
    /\ base_call = None
    /\ environ = EmptyDict
    /\ env_call = None
    /\ available \in BOOLEAN
    /\ instances \in [InstanceNames -> { "absent", "created", "stopped" }]
    /\ ~available => \A n \in InstanceNames : instances[n] = "absent"
    /\ mounts = [n \in InstanceNames |-> {}]
    /\ scope = None
    /\ last_op = NoOp
    /\ prev_op = NoOp

Next ==
    \/ Clean
    \/ LaunchEnter
    \/ LaunchBodyMount
    \/ LaunchExit
    \/ InstallProvider
    \/ LifeReplaceProjectDir

Spec == Init /\ [][Next]_vars

\* Number of calls of a given name among the calls of an operation.
RECURSIVE CountCalls(_, _)
CountCalls(calls, name) ==
    IF Len(calls) = 0 THEN 0
    ELSE (IF Head(calls) = name THEN 1 ELSE 0) + CountCalls(Tail(calls), name)

IsClean(rec) == rec.op = "clean_project_environments"

\* C1: when is_provider_available() returns false, clean_project_environments
\* returns without raising and calls none of get_instance_name,
\* create_environment, exists and delete, also for a project_path that does
\* not exist.
C1_UnavailableIsNoOp ==
    (IsClean(last_op) /\ ~available) =>
        /\ ~last_op.raised
        /\ last_op.calls = <<"is_provider_available">>
        /\ \A name \in { "get_instance_name", "create_environment", "exists", "delete" } :
              CountCalls(last_op.calls, name) = 0

\* clean_project_environments has returned on a host without the provider
\* for a project directory that does not exist.
C1_Witness ==
    /\ IsClean(last_op)
    /\ ~available
    /\ fs[last_op.project_path] = 0
    /\ ~last_op.raised
    /\ last_op.calls = <<"is_provider_available">>

\* C2: of two successive clean_project_environments calls with the same
\* arguments, the first finding the environment to exist, exactly one calls
\* delete(); after the first the environment is absent; the second sees
\* exists() false and calls neither delete() nor anything further.
C2_CleanTwiceDeletesOnce ==
    /\ (IsClean(last_op) /\ last_op.existed = Some(TRUE)) =>
          /\ CountCalls(last_op.calls, "delete") = 1
          /\ instances[last_op.instance_name[1]] = "absent"
    /\ (/\ IsClean(prev_op) /\ prev_op.existed = Some(TRUE)
        /\ IsClean(last_op) /\ last_op.project_path = prev_op.project_path) =>
          /\ CountCalls(prev_op.calls, "delete") + CountCalls(last_op.calls, "delete") = 1
          /\ ~last_op.raised
          /\ last_op.instance_name = prev_op.instance_name
          /\ last_op.existed = Some(FALSE)
          /\ last_op.calls = <<"is_provider_available", "get_instance_name",
                               "create_environment", "exists">>
          /\ instances[prev_op.instance_name[1]] = "absent"

\* Two successive cleans: the first deleted an existing environment, the
\* second found none.
C2_Witness ==
    /\ IsClean(prev_op) /\ prev_op.existed = Some(TRUE)
    /\ CountCalls(prev_op.calls, "delete") = 1
    /\ IsClean(last_op) /\ last_op.project_path = prev_op.project_path
    /\ last_op.existed = Some(FALSE)
    /\ CountCalls(last_op.calls, "delete") = 0

\* C3: on every exit of the launched_environment block (the body returned,
\* raised or was cancelled) unmount_all() and stop() have run when the
\* block is left: the instance is not launched, has no mounts, and was not
\* deleted by the exit.
C3_TeardownOnEveryExit ==
    [][ (scope # None /\ scope' = None) =>
          LET n == scope[1] IN
          /\ last_op'.op = "launched_environment_exit"
          /\ last_op'.outcome \in BodyOutcomes
          /\ last_op'.calls = <<"unmount_all", "stop">>
          /\ last_op'.unmounted = mounts[n]
          /\ mounts'[n] = {}
          /\ instances'[n] # "launched"
          /\ instances[n] = "launched" => instances'[n] = "stopped"
          /\ instances[n] # "absent" => instances'[n] # "absent"
      ]_vars

\* The body raised with mounts in place: the block was left with the
\* instance stopped and unmounted.
C3_Witness ==
    /\ last_op.op = "launched_environment_exit"
    /\ last_op.outcome = "raise"
    /\ last_op.raised
    /\ last_op.unmounted # {}
    /\ scope = None
    /\ instances[last_op.instance_name[1]] = "stopped"
    /\ mounts[last_op.instance_name[1]] = {}

\* C4 (as claimed): no instance moves from launched directly to absent.
C4_NeverLaunchedToAbsent ==
    [][ \A n \in InstanceNames :
          ~(instances[n] = "launched" /\ instances'[n] = "absent") ]_vars

\* C4 (as amended): clean_project_environments deletes the instance whenever
\* it exists, whatever its state (created, stopped or launched): once it
\* has returned for an instance, that instance is absent, so a launched
\* instance it runs for moves from launched directly to absent.  No other
\* operation makes an instance absent.
C4_CleanDeletesWhateverExists ==
    [][ \A n \in InstanceNames :
          /\ (instances[n] # "absent" /\ instances'[n] = "absent") =>
                /\ IsClean(last_op')
                /\ last_op'.instance_name = Some(n)
                /\ last_op'.existed = Some(TRUE)
          /\ (IsClean(last_op') /\ last_op'.instance_name = Some(n)) =>
                instances'[n] = "absent"
      ]_vars

\* clean_project_environments ran right after the block was entered and
\* deleted the launched instance while the block is still open.
C4_Witness ==
    /\ prev_op.op = "launched_environment" /\ ~prev_op.raised
    /\ IsClean(last_op)
    /\ last_op.instance_name = prev_op.instance_name
    /\ last_op.existed = Some(TRUE)
    /\ scope = last_op.instance_name
    /\ instances[scope[1]] = "absent"
====
